---------------------------- MODULE Spec2Model ----------------------------
(***************************************************************************)
(* State-machine model of iscc-sum: the IsccSumProcessor of src/src/sum.rs *)
(* (update / result, header framing, base32 token) and the isum command of *)
(* src/src/main.rs.  DataHasher and InstanceHasher (crate::data,           *)
(* crate::instance) are modules of the crate that are not among the source *)
(* files; they are modelled from spec.md sections 4.1 - 4.3.               *)
(***************************************************************************)
EXTENDS Integers, Sequences, FiniteSets, TLC

(***************************************************************************)
(* Bounds of the model.                                                    *)
(***************************************************************************)
\* most bytes pushed in one run, over all processors
MaxStream == 4
\* target chunk size of the chunker, scaled down from the reference 1024:
\* the minimum chunk size is more than one byte, and chunk boundaries fall
\* inside MaxStream bytes
AvgSize == 8

\* most files named on one command line
MaxFiles == 2

\* most entries in the directory tree
MaxEntries == 5

\* the chunker fed on its own: most bytes in one push, most zero bytes in
\* the stream, most bytes past the maximum chunk size
MaxFeed == 2
MaxZeros == 2
MaxTail == 2

\* two processors, for what one processor must not do to another
Procs == {"a", "b"}
\* the byte values fed to the processors: two Gear(0) in a row end a chunk,
\* a run of Gear(1) never does before the maximum size
Bytes == {0, 1}

RECURSIVE SeqsUpTo(_)
SeqsUpTo(n) ==
    IF n = 0 THEN {<<>>}
    ELSE LET shorter == SeqsUpTo(n - 1)
         IN  shorter \cup {Append(s, b) : s \in {t \in shorter : Len(t) = n - 1}, b \in Bytes}

\* the slices a caller may still push when n more bytes fit the run
Slices == [n \in 0..MaxStream |-> SeqsUpTo(n)]

(***************************************************************************)
(* Fixed-width arithmetic.  TLC's integers are 32-bit signed, so a u32 is  *)
(* a pair <<lo, hi>> and a u64 four 16-bit limbs, least significant first. *)
(***************************************************************************)
Limb == 256 * 256

Pow2Table == <<1, 2, 4, 8, 16, 32, 64, 128, 256, 512, 1024, 2048, 4096, 8192, 16384, 32768>>

Pow2(n) == Pow2Table[n + 1]

\* bitwise and of x with the mask 2^bits - 1
LowBits(x, bits) == x % Pow2(bits)

\* (x * y) mod 2^16 for 16-bit x, y, through 8-bit halves of y
Mul16Lo(x, y) == ((x * (y % 256)) + ((x * (y \div 256)) % 256) * 256) % Limb

\* (x * y) div 2^16 for 16-bit x, y
Mul16Hi(x, y) ==
    LET p0 == x * (y % 256)
        p1 == x * (y \div 256)
    IN  (p0 + (p1 % 256) * 256) \div Limb + p1 \div 256

\* wrapping u32 multiplication
Mul32(f, a) ==
    <<Mul16Lo(f[1], a[1]),
      (Mul16Hi(f[1], a[1]) + Mul16Lo(f[1], a[2]) + Mul16Lo(f[2], a[1])) % Limb>>

\* wrapping u32 addition
Add32(x, y) ==
    LET lo == x[1] + y[1]
    IN  <<lo % Limb, (x[2] + y[2] + lo \div Limb) % Limb>>

\* x < y on u32
Less32(x, y) == x[2] < y[2] \/ (x[2] = y[2] /\ x[1] < y[1])

\* (h << 1) + g on u64, wrapping
ShlAdd64(h, g) ==
    LET t1 == 2 * h[1] + g[1]
        t2 == 2 * h[2] + g[2] + t1 \div Limb
        t3 == 2 * h[3] + g[3] + t2 \div Limb
        t4 == 2 * h[4] + g[4] + t3 \div Limb
    IN  <<t1 % Limb, t2 % Limb, t3 % Limb, t4 % Limb>>

Zero64 == <<0, 0, 0, 0>>

(***************************************************************************)
(* DataHasher: content-defined chunker (gear hash, normalized chunking)    *)
(* feeding a 64-lane streaming MinHash.  spec.md 4.1, 4.2.                 *)
(***************************************************************************)
\* chunker parameters derived from the target size (spec.md 4.1)
MinSize == AvgSize \div 4
MaxSize == AvgSize * 8

RECURSIVE CeilLog2(_)
CeilLog2(n) == IF n <= 1 THEN 0 ELSE 1 + CeilLog2((n + 1) \div 2)

BitsSmall == CeilLog2(AvgSize) + 1
BitsLarge == CeilLog2(AvgSize) - 1

\* the gear table G[0..255] of 64-bit constants; the published table is not
\* part of the source files, a fixed table of the same shape stands for it
Gear(b) ==
    <<(b * 40503 + 48) % Limb, (b * 30011 + 54321) % Limb,
      (b * 7919 + 101) % Limb, (b * 10007 + 65) % Limb>>

NumLanes == 64

\* per-lane multiplier A[i] (odd) and offset B[i] of the permutation p_i;
\* the published constants are not part of the source files, a fixed table
\* of the same shape stands for them
LaneA(i) == <<(i * 2246 + 1) % Limb, (i * 40503 + 9) % Limb>>
LaneB(i) == <<(i * 31337 + 7) % Limb, (i * 4099 + 3) % Limb>>

LaneATable == [i \in 0..(NumLanes - 1) |-> LaneA(i)]
LaneBTable == [i \in 0..(NumLanes - 1) |-> LaneB(i)]

\* p_i(f) = f * A[i] + B[i] over 32-bit arithmetic
Permute(i, f) == Add32(Mul32(f, LaneATable[i]), LaneBTable[i])

Sentinel32 == <<Limb - 1, Limb - 1>>

DataHasher_new ==
    [h |-> Zero64, pos |-> 0, lanes |-> [i \in 0..(NumLanes - 1) |-> Sentinel32], n |-> 0]

\* the feature of a chunk: the low 32 bits of the gear register
Feature(h) == <<h[1], h[2]>>

\* the fold as it would be if each lane kept the latest permuted feature
FoldFeature_overwrite(lanes, f) ==
    [i \in 0..(NumLanes - 1) |-> Permute(i, f)]

\* fold one chunk feature into the lane minima
FoldFeature(lanes, f) ==
    [i \in 0..(NumLanes - 1) |->
        LET p == Permute(i, f) IN IF Less32(p, lanes[i]) THEN p ELSE lanes[i]]

\* the boundary rule as it would be without the minimum size
IsBoundary_no_minimum(h, pos) ==
    IF pos < AvgSize THEN LowBits(h[1], BitsSmall) = 0
    ELSE IF pos < MaxSize THEN LowBits(h[1], BitsLarge) = 0
    ELSE TRUE

\* the boundary rule, decided after the register is updated, on the length
\* pos of the chunk including the current byte
IsBoundary(h, pos) ==
    IF pos < MinSize THEN FALSE
    ELSE IF pos < AvgSize THEN LowBits(h[1], BitsSmall) = 0
    ELSE IF pos < MaxSize THEN LowBits(h[1], BitsLarge) = 0
    ELSE TRUE

\* one input byte against the chunker state
DataHasher_step(dh, b) ==
    LET h2   == ShlAdd64(dh.h, Gear(b))
        pos2 == dh.pos + 1
    IN  IF IsBoundary(h2, pos2)
        THEN [h |-> Zero64, pos |-> 0, lanes |-> FoldFeature(dh.lanes, Feature(h2)),
              n |-> dh.n + 1]
        ELSE [dh EXCEPT !.h = h2, !.pos = pos2]

RECURSIVE DataHasher_push(_, _)
DataHasher_push(dh, data) ==
    IF data = <<>> THEN dh
    ELSE DataHasher_push(DataHasher_step(dh, Head(data)), Tail(data))

\* finalize as it would be if a residue shorter than the minimum size were
\* dropped
DataHasher_finalize_drops_short(dh) ==
    IF dh.pos < MinSize THEN [dh EXCEPT !.h = Zero64, !.pos = 0]
    ELSE [h |-> Zero64, pos |-> 0, lanes |-> FoldFeature(dh.lanes, Feature(dh.h)),
          n |-> dh.n + 1]

\* close the open chunk, if any: the residue is a final chunk whose feature
\* is taken from the register as it stands
DataHasher_finalize(dh) ==
    IF dh.pos = 0 THEN dh
    ELSE [h |-> Zero64, pos |-> 0, lanes |-> FoldFeature(dh.lanes, Feature(dh.h)),
          n |-> dh.n + 1]

\* the 256-bit digest: the low 4 bits of each lane, two lanes to a byte
LanesDigest(lanes) ==
    [k \in 1..(NumLanes \div 2) |->
        (lanes[2 * (k - 1)][1] % 16) + 16 * (lanes[2 * (k - 1) + 1][1] % 16)]

\* digest(&mut self): closes the open chunk and returns the digest
DataHasher_digest(dh) ==
    LET closed == DataHasher_finalize(dh)
    IN  [self |-> closed, digest |-> LanesDigest(closed.lanes)]

(***************************************************************************)
(* InstanceHasher: streaming cryptographic hash and byte counter.          *)
(* spec.md 4.3.  BLAKE3 itself is outside the model; a position-sensitive  *)
(* streaming checksum with a 32-byte output stands for its context.        *)
(***************************************************************************)
HashModulus == 65521
DigestLen == 32

InstanceHasher_new == [state |-> <<1, 0>>, filesize |-> 0]

HashAbsorb(st, b) ==
    LET a == (st[1] + b + 1) % HashModulus
    IN  <<a, (st[2] + a) % HashModulus>>

RECURSIVE HashAbsorbAll(_, _)
HashAbsorbAll(st, data) ==
    IF data = <<>> THEN st ELSE HashAbsorbAll(HashAbsorb(st, Head(data)), Tail(data))

InstanceHasher_push(ih, data) ==
    [state |-> HashAbsorbAll(ih.state, data), filesize |-> ih.filesize + Len(data)]

\* read 32 output bytes; the context is not consumed
InstanceHasher_digest(ih) ==
    [k \in 1..DigestLen |-> (ih.state[1] * k + ih.state[2] * (2 * k + 1) + 7 * k) % 256]

HexDigits == <<"0", "1", "2", "3", "4", "5", "6", "7", "8", "9", "a", "b", "c", "d", "e", "f">>

HexOf(bytes) ==
    [i \in 1..(2 * Len(bytes)) |->
        LET byte == bytes[(i + 1) \div 2]
        IN  HexDigits[(IF i % 2 = 1 THEN byte \div 16 ELSE byte % 16) + 1]]

\* multihash: code 0x1e, length 0x20, then the digest, lowercase hex
InstanceHasher_multihash(ih) == <<"1", "e", "2", "0">> \o HexOf(InstanceHasher_digest(ih))

InstanceHasher_filesize(ih) == ih.filesize

(***************************************************************************)
(* base32 (RFC 4648 alphabet, no padding) as the base32 crate computes it, *)
(* and its inverse.  A text is a sequence of one-character strings.        *)
(***************************************************************************)
Base32Alphabet ==
    <<"A", "B", "C", "D", "E", "F", "G", "H", "I", "J", "K", "L", "M", "N", "O", "P",
      "Q", "R", "S", "T", "U", "V", "W", "X", "Y", "Z", "2", "3", "4", "5", "6", "7">>

\* one 5-byte block as 8 values of 5 bits (b[1] first, high bits first)
Base32Block(b) ==
    <<b[1] \div 8,
      (b[1] % 8) * 4 + b[2] \div 64,
      (b[2] \div 2) % 32,
      (b[2] % 2) * 16 + b[3] \div 16,
      (b[3] % 16) * 2 + b[4] \div 128,
      (b[4] \div 4) % 32,
      (b[4] % 4) * 8 + b[5] \div 32,
      b[5] % 32>>

\* the 5-bit values of a byte sequence: whole blocks, the last one filled
\* with zero bytes and cut to the characters that carry input bits
RECURSIVE Base32Values(_)
Base32Values(bytes) ==
    IF bytes = <<>> THEN <<>>
    ELSE IF Len(bytes) >= 5
    THEN Base32Block(SubSeq(bytes, 1, 5)) \o Base32Values(SubSeq(bytes, 6, Len(bytes)))
    ELSE SubSeq(Base32Block(bytes \o SubSeq(<<0, 0, 0, 0>>, 1, 5 - Len(bytes))),
                1, (8 * Len(bytes) + 4) \div 5)

Base32Encode(bytes) ==
    LET vals == Base32Values(bytes)
    IN  [k \in 1..Len(vals) |-> Base32Alphabet[vals[k] + 1]]

Base32Chars == {Base32Alphabet[v] : v \in 1..32}

\* the value 0..31 of a character of the alphabet
Base32Index == [c \in Base32Chars |-> (CHOOSE v \in 1..32 : Base32Alphabet[v] = c) - 1]

\* 8 values of 5 bits as the 5 bytes they hold
Base32Unblock(v) ==
    <<v[1] * 8 + v[2] \div 4,
      (v[2] % 4) * 64 + v[3] * 2 + v[4] \div 16,
      (v[4] % 16) * 16 + v[5] \div 2,
      (v[5] % 2) * 128 + v[6] * 4 + v[7] \div 8,
      (v[7] % 8) * 32 + v[8]>>

RECURSIVE Base32Bytes(_)
Base32Bytes(vals) ==
    IF vals = <<>> THEN <<>>
    ELSE IF Len(vals) >= 8
    THEN Base32Unblock(SubSeq(vals, 1, 8)) \o Base32Bytes(SubSeq(vals, 9, Len(vals)))
    ELSE SubSeq(Base32Unblock(vals \o SubSeq(<<0, 0, 0, 0, 0, 0, 0>>, 1, 8 - Len(vals))),
                1, (5 * Len(vals)) \div 8)

\* the bytes a text of alphabet characters decodes to (trailing bits dropped)
Base32Decode(text) == Base32Bytes([k \in 1..Len(text) |-> Base32Index[text[k]]])

(***************************************************************************)
(* IsccSumProcessor, src/src/sum.rs.                                       *)
(***************************************************************************)
\* x << k and x | y on u8
Shl8(x, k) == (x * Pow2(k)) % 256

RECURSIVE BitOr(_, _)
BitOr(x, y) ==
    IF x = 0 THEN y
    ELSE IF y = 0 THEN x
    ELSE (IF x % 2 = 1 \/ y % 2 = 1 THEN 1 ELSE 0) + 2 * BitOr(x \div 2, y \div 2)

IsccSumProcessor_new ==
    [data_hasher |-> DataHasher_new, instance_hasher |-> InstanceHasher_new]

\* update as it would be if every slice were chunked on its own: the open
\* chunk is closed at the end of each call
update_chunks_each_slice(self, data) ==
    [data_hasher     |-> DataHasher_finalize(DataHasher_push(self.data_hasher, data)),
     instance_hasher |-> InstanceHasher_push(self.instance_hasher, data)]

\* update as it would be if the slice were not forwarded to the instance hasher
update_skips_instance(self, data) ==
    [data_hasher     |-> DataHasher_push(self.data_hasher, data),
     instance_hasher |-> self.instance_hasher]

\* update as it would be if the instance hasher were started afresh on every call
update_rehashes_each_slice(self, data) ==
    [data_hasher     |-> DataHasher_push(self.data_hasher, data),
     instance_hasher |->
        [InstanceHasher_push(InstanceHasher_new, data)
            EXCEPT !.filesize = self.instance_hasher.filesize + Len(data)]]

update(self, data) ==
    [data_hasher     |-> DataHasher_push(self.data_hasher, data),
     instance_hasher |-> InstanceHasher_push(self.instance_hasher, data)]

\* data_code as it would be with the wide length in both modes
data_code_always_wide(data_digest, wide) == SubSeq(data_digest, 1, 16)

\* data_code: 128 bits for wide, 64 bits for standard
data_code(data_digest, wide) == SubSeq(data_digest, 1, IF wide THEN 16 ELSE 8)

\* instance_code as it would be if the standard form took the digest's tail
instance_code_tail(instance_digest, wide) ==
    IF wide THEN SubSeq(instance_digest, 1, 16) ELSE SubSeq(instance_digest, 25, 32)

instance_code(instance_digest, wide) == SubSeq(instance_digest, 1, IF wide THEN 16 ELSE 8)

\* the header as it would be with main type and sub type in each other's nibble
SumHeader_swapped(wide) ==
    LET main_type == 5
        sub_type  == IF wide THEN 7 ELSE 5
    IN  <<BitOr(Shl8(sub_type, 4), main_type), 0>>

\* the two header bytes of the composite code
SumHeader(wide) ==
    LET main_type == 5
        sub_type  == IF wide THEN 7 ELSE 5
        version   == 0
        length    == 0
        header_byte1 == BitOr(Shl8(main_type, 4), sub_type)
        header_byte2 == BitOr(Shl8(version, 4), length)
    IN  <<header_byte1, header_byte2>>

IsccPrefix == <<"I", "S", "C", "C", ":">>

\* format!("ISCC:{}", base32::encode(.., &bytes))
IsccText(bytes) == IsccPrefix \o Base32Encode(bytes)

\* the units as they would be if appended in the other order
UnitsOf_swapped(data_digest, instance_digest) ==
    <<IsccText(<<Shl8(4, 4), 7>> \o instance_digest),
      IsccText(<<Shl8(3, 4), 7>> \o data_digest)>>

\* the full 256-bit Data-Code and Instance-Code, in this order
UnitsOf(data_digest, instance_digest) ==
    LET data_header_byte1     == Shl8(3, 4)
        data_header_byte2     == 7
        instance_header_byte1 == Shl8(4, 4)
        instance_header_byte2 == 7
    IN  <<IsccText(<<data_header_byte1, data_header_byte2>> \o data_digest),
          IsccText(<<instance_header_byte1, instance_header_byte2>> \o instance_digest)>>

\* result(&mut self, wide, add_units): the processor as the call leaves it
\* and the dictionary it returns
result(self, wide, add_units) ==
    LET dd              == DataHasher_digest(self.data_hasher)
        data_digest     == dd.digest
        instance_digest == InstanceHasher_digest(self.instance_hasher)
        iscc_bytes      == SumHeader(wide) \o data_code(data_digest, wide)
                                           \o instance_code(instance_digest, wide)
        base            == [iscc     |-> IsccText(iscc_bytes),
                            datahash |-> InstanceHasher_multihash(self.instance_hasher),
                            filesize |-> InstanceHasher_filesize(self.instance_hasher)]
    IN  [self |-> [self EXCEPT !.data_hasher = dd.self],
         dict |-> IF add_units
                  THEN [iscc     |-> base.iscc,
                        datahash |-> base.datahash,
                        filesize |-> base.filesize,
                        units    |-> UnitsOf(data_digest, instance_digest)]
                  ELSE base]

(***************************************************************************)
(* isum, src/src/main.rs: one reader processed to its result.              *)
(***************************************************************************)
\* buffer size for reading (2MB)
BUFFER_SIZE == 2 * 1024 * 1024

Min(x, y) == IF x <= y THEN x ELSE y

Last(q) == q[Len(q)]

\* the end of process_reader as it would be without inverting the flag
process_reader_result_not_inverted(processor, narrow) ==
    result(processor, narrow, FALSE).dict

\* the end of process_reader: wide is the inverse of narrow, no units
process_reader_result(processor, narrow) ==
    LET wide == ~narrow
    IN  result(processor, wide, FALSE).dict

EXIT_ERROR == 1

\* error_exit as it would be with the success code
error_exit_success(message) ==
    [line |-> <<"isum: ">> \o message, code |-> 0]

\* error_exit: the line written to standard error and the exit code
error_exit(message) ==
    [line |-> <<"isum: ">> \o message, code |-> EXIT_ERROR]

\* the output line as it would be without the separator before the name
checksum_line_bare(iscc, filename) == iscc \o filename

\* println!("{} *{}", result.iscc, filename)
checksum_line(iscc, filename) == iscc \o <<" ", "*">> \o filename

\* the name printed for standard input
StdinName == <<"-">>

\* the paths a command line can name and what each can be on disk: absent,
\* a directory, or a regular file with some contents
PathNames == {<<"x">>, <<"y">>}
FileData == {<<>>, <<1>>, <<0, 1>>}
DiskEntries ==
    {[kind |-> "missing"], [kind |-> "dir"]}
        \cup {[kind |-> "file", data |-> d] : d \in FileData}

RECURSIVE PathLists(_)
PathLists(n) ==
    IF n = 0 THEN {<<>>}
    ELSE LET shorter == PathLists(n - 1)
         IN  shorter \cup {Append(l, f) : l \in {k \in shorter : Len(k) = n - 1},
                                          f \in PathNames}

(***************************************************************************)
(* treewalk: names and paths.  A name is a sequence of characters, a path  *)
(* the sequence of names below the top directory; a character is a string  *)
(* of one character, or "U+xxxx" for a code point outside ASCII.           *)
(***************************************************************************)
\* the UTF-8 encoding of the characters that names and patterns are made of
Utf8Table ==
    " " :> <<32>> @@ "!" :> <<33>> @@ "#" :> <<35>> @@ "*" :> <<42>> @@
    "-" :> <<45>> @@ "." :> <<46>> @@ "/" :> <<47>> @@
    "a" :> <<97>> @@ "b" :> <<98>> @@ "d" :> <<100>> @@ "e" :> <<101>> @@
    "f" :> <<102>> @@ "g" :> <<103>> @@ "i" :> <<105>> @@ "l" :> <<108>> @@
    "n" :> <<110>> @@ "o" :> <<111>> @@ "r" :> <<114>> @@ "t" :> <<116>> @@
    "U+00E9" :> <<195, 169>> @@ "U+0301" :> <<204, 129>>

\* String::as_bytes
RECURSIVE as_bytes(_)
as_bytes(name) ==
    IF name = <<>> THEN <<>> ELSE Utf8Table[Head(name)] \o as_bytes(Tail(name))

\* canonical composition on the characters of the table: e followed by the
\* combining acute accent composes to U+00E9, nothing else composes
RECURSIVE nfc(_)
nfc(name) ==
    IF Len(name) < 2 THEN name
    ELSE IF name[1] = "e" /\ name[2] = "U+0301"
         THEN <<"U+00E9">> \o nfc(SubSeq(name, 3, Len(name)))
         ELSE <<name[1]>> \o nfc(Tail(name))

\* <[u8]>::cmp: lexicographic, a proper prefix is less
RECURSIVE cmp(_, _)
cmp(x, y) ==
    IF x = <<>> THEN (IF y = <<>> THEN "Equal" ELSE "Less")
    ELSE IF y = <<>> THEN "Greater"
    ELSE IF Head(x) < Head(y) THEN "Less"
    ELSE IF Head(x) > Head(y) THEN "Greater"
    ELSE cmp(Tail(x), Tail(y))

starts_with(text, prefix) ==
    Len(text) >= Len(prefix) /\ SubSeq(text, 1, Len(prefix)) = prefix

ends_with(text, suffix) ==
    Len(text) >= Len(suffix)
        /\ SubSeq(text, Len(text) - Len(suffix) + 1, Len(text)) = suffix

contains(text, c) == \E k \in 1..Len(text) : text[k] = c

\* str::trim: white space is taken off both ends
RECURSIVE trim(_)
trim(text) ==
    IF text = <<>> THEN text
    ELSE IF Head(text) = " " THEN trim(Tail(text))
    ELSE IF text[Len(text)] = " " THEN trim(SubSeq(text, 1, Len(text) - 1))
    ELSE text

\* the text of a relative path: its names joined by the separator
RECURSIVE PathText(_)
PathText(names) ==
    IF names = <<>> THEN <<>>
    ELSE IF Len(names) = 1 THEN names[1]
    ELSE names[1] \o <<"/">> \o PathText(Tail(names))

\* Path::strip_prefix: the names below base, or an error
strip_prefix(path, base) ==
    IF Len(path) >= Len(base) /\ SubSeq(path, 1, Len(base)) = base
    THEN [ok |-> TRUE, rel |-> PathText(SubSeq(path, Len(base) + 1, Len(path)))]
    ELSE [ok |-> FALSE]

(***************************************************************************)
(* IgnoreSpec: gitignore-style patterns matched through globset.           *)
(***************************************************************************)
IgnoreSpec_new == [patterns |-> <<>>]

RECURSIVE IgnoreSpec_from_lines(_)
IgnoreSpec_from_lines(lines) ==
    IF lines = <<>> THEN IgnoreSpec_new
    ELSE LET line == trim(Head(lines))
             rest == IgnoreSpec_from_lines(Tail(lines))
         IN  IF line = <<>> \/ starts_with(line, <<"#">>)
             THEN rest
             ELSE [patterns |-> <<line>> \o rest.patterns]

IgnoreSpec_combine(self, other) == [patterns |-> self.patterns \o other.patterns]

\* the conversion of a gitignore pattern to a glob pattern
glob_pattern(pattern) ==
    IF ends_with(pattern, <<"/">>) THEN pattern \o <<"*", "*">>
    ELSE IF starts_with(pattern, <<"/">>) THEN Tail(pattern)
    ELSE IF contains(pattern, "/") /\ ~starts_with(pattern, <<"*", "*", "/">>)
         THEN <<"*", "*", "/">> \o pattern
    ELSE <<"*", "*", "/">> \o pattern

\* Glob::new: the tokens of a glob made of literals, separators and stars.
\* A double star is recursive only as a whole component: at the start
\* before a separator, at the end after one, or between two.
RECURSIVE GlobTokens(_, _, _)
GlobTokens(glob, i, toks) ==
    IF i > Len(glob) THEN toks
    ELSE IF glob[i] # "*" THEN GlobTokens(glob, i + 1, Append(toks, glob[i]))
    ELSE IF i = Len(glob) \/ glob[i + 1] # "*"
         THEN GlobTokens(glob, i + 1, Append(toks, "ZeroOrMore"))
    ELSE LET two == toks \o <<"ZeroOrMore", "ZeroOrMore">>
             end == i + 1 = Len(glob)
         IN  IF toks = <<>>
             THEN IF end THEN GlobTokens(glob, i + 2, <<"RecursivePrefix">>)
                  ELSE IF glob[i + 2] = "/"
                       THEN GlobTokens(glob, i + 3, <<"RecursivePrefix">>)
                  ELSE GlobTokens(glob, i + 2, two)
             ELSE IF glob[i - 1] # "/" THEN GlobTokens(glob, i + 2, two)
             ELSE IF ~end /\ glob[i + 2] # "/" THEN GlobTokens(glob, i + 2, two)
             ELSE LET popped == toks[Len(toks)]
                      kept   == SubSeq(toks, 1, Len(toks) - 1)
                      tok    == IF popped \in {"RecursivePrefix", "RecursiveSuffix"}
                                THEN popped
                                ELSE IF end THEN "RecursiveSuffix"
                                ELSE "RecursiveZeroOrMore"
                  IN  GlobTokens(glob, IF end THEN i + 2 ELSE i + 3, Append(kept, tok))

\* Glob::is_match with the default options: the whole text is matched, a
\* star matches any characters, separators included
RECURSIVE GlobMatch(_, _, _, _)
GlobMatch(toks, i, text, j) ==
    IF i > Len(toks) THEN j > Len(text)
    ELSE LET tok == toks[i]
             n   == Len(text)
         IN  CASE tok = "ZeroOrMore" ->
                    \E k \in j..(n + 1) : GlobMatch(toks, i + 1, text, k)
               [] tok = "RecursivePrefix" ->
                    \/ GlobMatch(toks, i + 1, text, j)
                    \/ \E k \in j..n : text[k] = "/" /\ GlobMatch(toks, i + 1, text, k + 1)
               [] tok = "RecursiveSuffix" ->
                    /\ j <= n
                    /\ text[j] = "/"
                    /\ \E k \in (j + 1)..(n + 1) : GlobMatch(toks, i + 1, text, k)
               [] tok = "RecursiveZeroOrMore" ->
                    /\ j <= n
                    /\ text[j] = "/"
                    /\ \/ GlobMatch(toks, i + 1, text, j + 1)
                       \/ \E k \in (j + 1)..n :
                            text[k] = "/" /\ GlobMatch(toks, i + 1, text, k + 1)
               [] OTHER ->
                    j <= n /\ text[j] = tok /\ GlobMatch(toks, i + 1, text, j + 1)

\* build_globset: one glob per pattern, negations are left out
RECURSIVE build_globset(_)
build_globset(patterns) ==
    IF patterns = <<>> THEN <<>>
    ELSE LET pattern == Head(patterns)
             rest    == build_globset(Tail(patterns))
         IN  IF starts_with(pattern, <<"!">>) THEN rest
             ELSE <<GlobTokens(glob_pattern(pattern), 1, <<>>)>> \o rest

\* GlobSet::is_match: some glob of the set matches
GlobSet_is_match(globset, text) ==
    \E g \in 1..Len(globset) : GlobMatch(globset[g], 1, text, 1)

\* matches_dir as it would be if no directory ever matched
IgnoreSpec_matches_dir_never(self, text) == FALSE

IgnoreSpec_matches(self, text) ==
    GlobSet_is_match(build_globset(self.patterns), text)

IgnoreSpec_matches_dir(self, text) ==
    LET globset == build_globset(self.patterns)
    IN  GlobSet_is_match(globset, text \o <<"/">>) \/ GlobSet_is_match(globset, text)

(***************************************************************************)
(* The directory tree: a function from the paths below the top directory   *)
(* to nodes.  A node is a directory, a regular file with its lines, a      *)
(* symbolic link (to a directory, or to a file with its lines) or some     *)
(* other kind of entry.  The top directory is the empty path.              *)
(***************************************************************************)
Top == <<>>

Parent(path) == SubSeq(path, 1, Len(path) - 1)

\* Path::exists, Path::is_dir, Path::is_file: all three follow links
Path_exists(tree, path) == path = Top \/ path \in DOMAIN tree

Path_is_dir(tree, path) ==
    \/ path = Top
    \/ /\ path \in DOMAIN tree
       /\ \/ tree[path].kind = "dir"
          \/ tree[path].kind = "link" /\ tree[path].to = "dir"

Path_is_file(tree, path) ==
    /\ path \in DOMAIN tree
    /\ \/ tree[path].kind = "file"
       \/ tree[path].kind = "link" /\ tree[path].to = "file"

\* the names in a directory
NamesIn(tree, dir) == {q[Len(q)] : q \in {r \in DOMAIN tree : Parent(r) = dir}}

\* fs::read_dir: the names of the directory in the order the file system
\* enumerates them, which is any order
ReadDirOrders(tree, dir) ==
    LET names == NamesIn(tree, dir)
        n     == Cardinality(names)
    IN  {order \in [1..n -> names] :
            \A i, j \in 1..n : i # j => order[i] # order[j]}

\* one enumeration: ascending by the bytes of the name, or the reverse
RECURSIVE AscendingNames(_)
AscendingNames(names) ==
    IF names = {} THEN <<>>
    ELSE LET least == CHOOSE x \in names :
                        \A y \in names : cmp(as_bytes(x), as_bytes(y)) # "Greater"
         IN  <<least>> \o AscendingNames(names \ {least})

Reverse(q) == [k \in 1..Len(q) |-> q[Len(q) + 1 - k]]

read_dir(tree, dir, flip) ==
    LET up == AscendingNames(NamesIn(tree, dir))
    IN  IF flip THEN Reverse(up) ELSE up

\* the comparison of listdir as it would be on the original names alone
listdir_cmp_raw(a, b) == cmp(as_bytes(a.name), as_bytes(b.name))

\* the comparison of listdir: normalized names, original names break ties
listdir_cmp(a, b) ==
    LET a_normalized == nfc(a.name)
        b_normalized == nfc(b.name)
        other        == cmp(as_bytes(a_normalized), as_bytes(b_normalized))
    IN  IF other = "Equal" THEN cmp(as_bytes(a.name), as_bytes(b.name)) ELSE other

\* slice::sort_by: a stable sort, here by insertion
RECURSIVE InsertEntry(_, _)
InsertEntry(sorted, e) ==
    IF sorted = <<>> THEN <<e>>
    ELSE IF listdir_cmp(e, Head(sorted)) = "Less" THEN <<e>> \o sorted
    ELSE <<Head(sorted)>> \o InsertEntry(Tail(sorted), e)

RECURSIVE sort_by(_)
sort_by(entries) ==
    IF entries = <<>> THEN <<>>
    ELSE InsertEntry(sort_by(SubSeq(entries, 1, Len(entries) - 1)), entries[Len(entries)])

\* the entry listdir makes of a name
DirEntry(tree, dir, name) ==
    LET path == Append(dir, name)
    IN  [name |-> name, path |-> path,
         is_dir |-> tree[path].kind = "dir", is_file |-> tree[path].kind = "file"]

\* the loop of listdir as it would be without the symlink test
RECURSIVE listdir_entries_with_links(_, _, _)
listdir_entries_with_links(tree, dir, order) ==
    IF order = <<>> THEN <<>>
    ELSE <<DirEntry(tree, dir, Head(order))>>
            \o listdir_entries_with_links(tree, dir, Tail(order))

\* the loop of listdir: symlinks are skipped
RECURSIVE listdir_entries(_, _, _)
listdir_entries(tree, dir, order) ==
    IF order = <<>> THEN <<>>
    ELSE LET rest == listdir_entries(tree, dir, Tail(order))
         IN  IF tree[Append(dir, Head(order))].kind = "link" THEN rest
             ELSE <<DirEntry(tree, dir, Head(order))>> \o rest

\* listdir over one enumeration of the directory
listdir(tree, dir, order) == sort_by(listdir_entries(tree, dir, order))

\* a name that starts with '.' and ends with "ignore"
IgnoreSuffix == <<"i", "g", "n", "o", "r", "e">>
IsIgnoreName(name) == starts_with(name, <<".">>) /\ ends_with(name, IgnoreSuffix)

\* the three groups a walk separates the entries of a directory into
IgnoreFilesOf(entries) ==
    SelectSeq(entries, LAMBDA e : ~e.is_dir /\ e.is_file /\ IsIgnoreName(e.name))
RegularFilesOf(entries) ==
    SelectSeq(entries, LAMBDA e : ~e.is_dir /\ e.is_file /\ ~IsIgnoreName(e.name))
DirectoriesOf(entries) == SelectSeq(entries, LAMBDA e : e.is_dir)

PathsOf(entries) == [k \in 1..Len(entries) |-> entries[k].path]

\* the order of yielding as it would be with the regular files first
yield_order_regular_first(ignore_files, regular_files) == regular_files \o ignore_files

\* the files of one directory in the order they are yielded
yield_order(ignore_files, regular_files) == ignore_files \o regular_files

(***************************************************************************)
(* treewalk.  A walk returns its outcome, the paths it yields, and, as     *)
(* history, the directories it listed and the ignore files it read.        *)
(***************************************************************************)
RECURSIVE treewalk_recursive(_, _, _)
RECURSIVE treewalk_directories(_, _, _, _)

treewalk_recursive(tree, dir, flip) ==
    LET entries == listdir(tree, dir, read_dir(tree, dir, flip))
        files   == yield_order(IgnoreFilesOf(entries), RegularFilesOf(entries))
    IN  treewalk_directories(tree, DirectoriesOf(entries), flip,
                             [result |-> PathsOf(files), listed |-> <<dir>>])

treewalk_directories(tree, directories, flip, acc) ==
    IF directories = <<>> THEN acc
    ELSE LET sub == treewalk_recursive(tree, Head(directories).path, flip)
         IN  treewalk_directories(tree, Tail(directories), flip,
                                  [result |-> acc.result \o sub.result,
                                   listed |-> acc.listed \o sub.listed])

\* the root check as it would be without the test for a directory
root_check_exists_only(tree, path) ==
    IF ~Path_exists(tree, path) THEN "NotFound" ELSE "ok"

\* the root check of treewalk and treewalk_ignore
root_check(tree, path) ==
    IF ~Path_exists(tree, path) THEN "NotFound"
    ELSE IF ~Path_is_dir(tree, path) THEN "InvalidInput"
    ELSE "ok"

treewalk(tree, path, flip) ==
    LET checked == root_check(tree, path)
    IN  IF checked # "ok"
        THEN [outcome |-> checked, result |-> <<>>, listed |-> <<>>, read |-> <<>>]
        ELSE LET walked == treewalk_recursive(tree, path, flip)
             IN  [outcome |-> "ok", result |-> walked.result,
                  listed |-> walked.listed, read |-> <<>>]

\* names of ignore files
GitIgnoreName == <<".", "g", "i", "t", "i", "g", "n", "o", "r", "e">>
OtherIgnoreName == <<".", "i", "g", "n", "o", "r", "e">>

\* the path of the ignore file as it would be with the name fixed
IgnoreFilePath_fixed_name(dir, ignore_file_name) == Append(dir, GitIgnoreName)

\* dir.join(ignore_file_name)
IgnoreFilePath(dir, ignore_file_name) == Append(dir, ignore_file_name)

HasIgnoreFile(tree, dir, ignore_file_name) ==
    /\ Path_exists(tree, IgnoreFilePath(dir, ignore_file_name))
    /\ Path_is_file(tree, IgnoreFilePath(dir, ignore_file_name))

\* the spec of a directory as it would be if the spec handed down were dropped
current_spec_local_only(tree, dir, ignore_file_name, ignore_spec) ==
    IF HasIgnoreFile(tree, dir, ignore_file_name)
    THEN IgnoreSpec_from_lines(tree[IgnoreFilePath(dir, ignore_file_name)].lines)
    ELSE IgnoreSpec_new

\* current_spec: the spec handed down, extended by the directory's ignore file
current_spec_of(tree, dir, ignore_file_name, ignore_spec) ==
    IF HasIgnoreFile(tree, dir, ignore_file_name)
    THEN IgnoreSpec_combine(ignore_spec,
            IgnoreSpec_from_lines(tree[IgnoreFilePath(dir, ignore_file_name)].lines))
    ELSE ignore_spec

\* the two loops over the files: each is yielded unless should_ignore says
\* so; a path that is not below root_path ends the walk with an error
RECURSIVE yield_files(_, _, _, _)
yield_files(files, root_path, current_spec, acc) ==
    IF files = <<>> THEN [err |-> "none", result |-> acc]
    ELSE LET rel_path == strip_prefix(Head(files).path, root_path)
         IN  IF ~rel_path.ok THEN [err |-> "InvalidPath", result |-> <<>>]
             ELSE yield_files(Tail(files), root_path, current_spec,
                              IF IgnoreSpec_matches(current_spec, rel_path.rel)
                              THEN acc
                              ELSE Append(acc, Head(files).path))

RECURSIVE treewalk_ignore_recursive(_, _, _, _, _, _)
RECURSIVE treewalk_ignore_directories(_, _, _, _, _, _, _)

treewalk_ignore_recursive(tree, dir, ignore_file_name, root_path, ignore_spec, flip) ==
    LET current_spec == current_spec_of(tree, dir, ignore_file_name, ignore_spec)
        read    == IF HasIgnoreFile(tree, dir, ignore_file_name)
                   THEN <<IgnoreFilePath(dir, ignore_file_name)>> ELSE <<>>
        entries == listdir(tree, dir, read_dir(tree, dir, flip))
        files   == yield_order(IgnoreFilesOf(entries), RegularFilesOf(entries))
        yielded == yield_files(files, root_path, current_spec, <<>>)
    IN  IF yielded.err # "none"
        THEN [err |-> yielded.err, result |-> <<>>, listed |-> <<dir>>, read |-> read]
        ELSE treewalk_ignore_directories(tree, DirectoriesOf(entries), ignore_file_name,
                 root_path, current_spec, flip,
                 [err |-> "none", result |-> yielded.result, listed |-> <<dir>>,
                  read |-> read])

treewalk_ignore_directories(tree, directories, ignore_file_name, root_path, current_spec, flip, acc) ==
    IF directories = <<>> THEN acc
    ELSE LET entry    == Head(directories)
             rel_path == strip_prefix(entry.path, root_path)
         IN  IF ~rel_path.ok THEN [acc EXCEPT !.err = "InvalidPath", !.result = <<>>]
             ELSE IF IgnoreSpec_matches_dir(current_spec, rel_path.rel)
             THEN treewalk_ignore_directories(tree, Tail(directories), ignore_file_name,
                                              root_path, current_spec, flip, acc)
             ELSE LET sub == treewalk_ignore_recursive(tree, entry.path, ignore_file_name,
                                                       root_path, current_spec, flip)
                      all == [err |-> sub.err,
                              result |-> acc.result \o sub.result,
                              listed |-> acc.listed \o sub.listed,
                              read |-> acc.read \o sub.read]
                  IN  IF sub.err # "none" THEN [all EXCEPT !.result = <<>>]
                      ELSE treewalk_ignore_directories(tree, Tail(directories),
                               ignore_file_name, root_path, current_spec, flip, all)

\* Option: None, or Some(value)
None == [some |-> FALSE]
Some(value) == [some |-> TRUE, value |-> value]

treewalk_ignore(tree, path, ignore_file_name, root_path_option, ignore_spec_option, flip) ==
    LET root_path == IF root_path_option.some THEN root_path_option.value ELSE path
        checked   == root_check(tree, path)
        base_spec == IF ignore_spec_option.some THEN ignore_spec_option.value
                     ELSE IgnoreSpec_new
    IN  IF checked # "ok"
        THEN [outcome |-> checked, result |-> <<>>, listed |-> <<>>, read |-> <<>>]
        ELSE LET walked == treewalk_ignore_recursive(tree, path, ignore_file_name,
                                                     root_path, base_spec, flip)
             IN  [outcome |-> IF walked.err = "none" THEN "ok" ELSE walked.err,
                  result |-> walked.result, listed |-> walked.listed,
                  read |-> walked.read]

(***************************************************************************)
(* The processors as a state machine: any caller, any order of calls.      *)
(***************************************************************************)
VARIABLES
    proc,       \* the processors
    stream,     \* history: all bytes pushed into each processor, in order
    sliced,     \* history: whether the stream arrived in more than one non-empty slice
    finalized,  \* history: whether result has returned for the processor
    ret,        \* the call that returned last: the processor, whether result had
                \* returned for it before, the flags and what the call returned
    cli,        \* process_reader: its position, the flag, the reader's bytes (all
                \* of them and those not yet read), its processor and its result
    run,        \* the isum process: its position, the command line, the disk, the
                \* file being processed, what went to stdout and stderr, the exit code
    fs,         \* the directory tree the walks run on
    walk,       \* the walk that returned last: its arguments and what it returned
    chunker     \* a DataHasher fed on its own, with the history of its chunks

procVars == <<proc, stream, sliced, finalized, ret>>
cliVars == <<cli, run>>
walkVars == <<fs, walk>>
vars == <<proc, stream, sliced, finalized, ret, cli, run, fs, walk, chunker>>

NoCall == [op |-> "none"]

\* a DataHasher before its first byte: no chunk yet, nothing pushed.
\* dh is the hasher; the other fields record its history: the call made
\* last and the hasher before it, the bytes and zero bytes pushed, the
\* lengths of the chunks the last call ended, the lengths and the features
\* of all chunks ended so far, and whether digest was called
ChunkerStart ==
    [dh |-> DataHasher_new, op |-> "new", before |-> DataHasher_new,
     total |-> 0, zeros |-> 0, ended |-> <<>>,
     lengths |-> <<>>, features |-> <<>>, digested |-> FALSE]

Init ==
    /\ proc = [p \in Procs |-> IsccSumProcessor_new]
    /\ stream = [p \in Procs |-> <<>>]
    /\ sliced = [p \in Procs |-> FALSE]
    /\ finalized = [p \in Procs |-> FALSE]
    /\ ret = NoCall
    /\ cli = [pc |-> "idle"]
    /\ run = [pc |-> "off"]
    /\ fs = <<>>
    /\ walk = [op |-> "none"]
    /\ chunker = ChunkerStart

RECURSIVE SumLen(_, _)
SumLen(f, S) ==
    IF S = {} THEN 0
    ELSE LET p == CHOOSE q \in S : TRUE IN Len(f[p]) + SumLen(f, S \ {p})

Pushed == SumLen(stream, Procs)

\* processor.update(data): returns (), there is no error path
Update(p, data) ==
    /\ proc' = [proc EXCEPT ![p] = update(@, data)]
    /\ stream' = [stream EXCEPT ![p] = @ \o data]
    /\ sliced' = [sliced EXCEPT ![p] = @ \/ (data # <<>> /\ stream[p] # <<>>)]
    /\ ret' = [op |-> "update", p |-> p, after_result |-> finalized[p], outcome |-> "ok"]
    /\ UNCHANGED <<finalized, cliVars, walkVars, chunker>>

\* processor.result(wide, add_units): always Ok(dictionary)
Result(p, wide, add_units) ==
    LET r == result(proc[p], wide, add_units)
    IN  /\ proc' = [proc EXCEPT ![p] = r.self]
        /\ finalized' = [finalized EXCEPT ![p] = TRUE]
        /\ ret' = [op |-> "result", p |-> p, after_result |-> finalized[p],
                   outcome |-> "ok", wide |-> wide, add_units |-> add_units,
                   dict |-> r.dict]
        /\ UNCHANGED <<stream, sliced, cliVars, walkVars, chunker>>

\* one processor through its life
Next ==
    \/ \E data \in Slices[MaxStream - Pushed] : Update("a", data)
    \/ \E wide \in BOOLEAN, add_units \in BOOLEAN : Result("a", wide, add_units)

Spec == Init /\ [][Next]_vars

\* two processors side by side
NextPair ==
    \/ \E p \in Procs, data \in Slices[MaxStream - Pushed] : Update(p, data)
    \/ \E p \in Procs, wide \in BOOLEAN, add_units \in BOOLEAN : Result(p, wide, add_units)

SpecPair == Init /\ [][NextPair]_vars

\* process_reader is entered: a fresh processor, nothing read yet
CliStart(narrow, data) ==
    /\ cli.pc = "idle"
    /\ cli' = [pc |-> "read", narrow |-> narrow, data |-> data, rest |-> data,
               processor |-> IsccSumProcessor_new]
    /\ UNCHANGED <<procVars, run, walkVars, chunker>>

\* reader.read(&mut buffer) returns bytes_read > 0, at most the buffer's
\* size and what the reader still holds; the bytes go to update
CliRead(bytes_read) ==
    /\ cli.pc = "read"
    /\ bytes_read \in 1..Min(BUFFER_SIZE, Len(cli.rest))
    /\ cli' = [cli EXCEPT
                 !.processor = update(@, SubSeq(cli.rest, 1, bytes_read)),
                 !.rest = SubSeq(@, bytes_read + 1, Len(@))]
    /\ UNCHANGED <<procVars, run, walkVars, chunker>>

\* read returns 0 at the end of the reader: the loop ends and the result is taken
CliFinish ==
    /\ cli.pc = "read"
    /\ cli.rest = <<>>
    /\ cli' = [pc |-> "done", narrow |-> cli.narrow, data |-> cli.data,
               result |-> process_reader_result(cli.processor, cli.narrow)]
    /\ UNCHANGED <<procVars, run, walkVars, chunker>>

\* read returns Err: process_reader returns it, no result is taken
CliReadFails ==
    /\ cli.pc = "read"
    /\ cli' = [pc |-> "failed", narrow |-> cli.narrow, data |-> cli.data]
    /\ UNCHANGED <<procVars, run, walkVars, chunker>>

NextCli ==
    \/ \E narrow \in BOOLEAN, data \in Slices[MaxStream] : CliStart(narrow, data)
    \/ \E bytes_read \in 1..MaxStream : CliRead(bytes_read)
    \/ CliFinish
    \/ CliReadFails

SpecCli == Init /\ [][NextCli]_vars

\* main: the command line is parsed, run(cli) is entered
RunStart(files, narrow, disk, stdin) ==
    /\ run.pc = "off"
    /\ cli.pc = "idle"
    /\ run' = [pc |-> "run", files |-> files, narrow |-> narrow, disk |-> disk,
               stdin |-> stdin, idx |-> 1, opened |-> <<>>,
               stdout |-> <<>>, stderr |-> <<>>, exit |-> "none"]
    /\ UNCHANGED <<procVars, cli, walkVars, chunker>>

\* the path process_file is working on
RunFile == run.files[run.idx]

\* run is in the loop over the files, between two readers
RunAtFile ==
    /\ run.pc = "run"
    /\ cli.pc = "idle"
    /\ run.idx <= Len(run.files)

\* main: run returned Err(e), error_exit(e.to_string())
RunErrorExit(message) ==
    LET e == error_exit(message)
    IN  run' = [run EXCEPT !.pc = "exited", !.stderr = Append(@, e.line),
                           !.exit = e.code]

\* process_file: the path does not exist
RunFileNotFound ==
    /\ RunAtFile
    /\ run.disk[RunFile].kind = "missing"
    /\ RunErrorExit(RunFile \o <<": No such file or directory">>)
    /\ UNCHANGED <<procVars, cli, walkVars, chunker>>

\* process_file: the path exists and is not a regular file
RunFileNotRegular ==
    /\ RunAtFile
    /\ run.disk[RunFile].kind \notin {"missing", "file"}
    /\ RunErrorExit(RunFile \o <<": Is not a regular file">>)
    /\ UNCHANGED <<procVars, cli, walkVars, chunker>>

\* process_file: path.metadata() or File::open(path) returns Err
RunFileOpenFails ==
    /\ RunAtFile
    /\ run.disk[RunFile].kind # "missing"
    /\ RunErrorExit(<<"os error">>)
    /\ UNCHANGED <<procVars, cli, walkVars, chunker>>

\* process_file: the file is open, process_reader is entered on it
RunFileOpen ==
    /\ RunAtFile
    /\ run.disk[RunFile].kind = "file"
    /\ run' = [run EXCEPT !.opened = Append(@, RunFile)]
    /\ cli' = [pc |-> "read", narrow |-> run.narrow, data |-> run.disk[RunFile].data,
               rest |-> run.disk[RunFile].data, processor |-> IsccSumProcessor_new]
    /\ UNCHANGED <<procVars, walkVars, chunker>>

\* process_stdin: no files were given, process_reader is entered on stdin
RunStdinOpen ==
    /\ run.pc = "run"
    /\ cli.pc = "idle"
    /\ run.files = <<>>
    /\ run.opened = <<>>
    /\ run' = [run EXCEPT !.opened = Append(@, StdinName)]
    /\ cli' = [pc |-> "read", narrow |-> run.narrow, data |-> run.stdin,
               rest |-> run.stdin, processor |-> IsccSumProcessor_new]
    /\ UNCHANGED <<procVars, walkVars, chunker>>

\* process_file / process_stdin: process_reader returned Ok(result), the
\* line is printed and the loop moves on
RunPrint ==
    /\ run.pc = "run"
    /\ cli.pc = "done"
    /\ run' = [run EXCEPT
                 !.stdout = Append(@, checksum_line(cli.result.iscc, Last(run.opened))),
                 !.idx = @ + 1]
    /\ cli' = [pc |-> "idle"]
    /\ UNCHANGED <<procVars, walkVars, chunker>>

\* process_reader returned Err: it goes up through process_file and run
RunReadError ==
    /\ run.pc = "run"
    /\ cli.pc = "failed"
    /\ RunErrorExit(<<"os error">>)
    /\ cli' = [pc |-> "idle"]
    /\ UNCHANGED <<procVars, walkVars, chunker>>

\* run returned Ok(()): main returns, the process exits with 0
RunExit ==
    /\ run.pc = "run"
    /\ cli.pc = "idle"
    /\ IF run.files = <<>> THEN run.opened # <<>> ELSE run.idx > Len(run.files)
    /\ run' = [run EXCEPT !.pc = "exited", !.exit = 0]
    /\ UNCHANGED <<procVars, cli, walkVars, chunker>>

\* the reader's steps are those of process_reader, taken inside a run
RunReader ==
    /\ run.pc = "run"
    /\ \/ \E bytes_read \in 1..MaxStream : CliRead(bytes_read)
       \/ CliFinish
       \/ CliReadFails

NextRun ==
    \/ \E files \in PathLists(MaxFiles), narrow \in BOOLEAN,
          disk \in [PathNames -> DiskEntries], stdin \in FileData :
            /\ files # <<>> => stdin = <<>>
            /\ \A f \in PathNames :
                  (\A i \in 1..Len(files) : files[i] # f) => disk[f].kind = "missing"
            /\ RunStart(files, narrow, disk, stdin)
    \/ RunFileNotFound
    \/ RunFileNotRegular
    \/ RunFileOpenFails
    \/ RunFileOpen
    \/ RunStdinOpen
    \/ RunReader
    \/ RunPrint
    \/ RunReadError
    \/ RunExit

SpecRun == Init /\ [][NextRun]_vars

(***************************************************************************)
(* The walks as a state machine: the caller builds a directory tree and    *)
(* calls listdir, treewalk and treewalk_ignore on it.                      *)
(***************************************************************************)
File(lines) == [kind |-> "file", lines |-> lines]
Dir == [kind |-> "dir"]
LinkToDir == [kind |-> "link", to |-> "dir"]
LinkToFile(lines) == [kind |-> "link", to |-> "file", lines |-> lines]
Other == [kind |-> "other"]

\* the entries a flat directory is built from: names that normalize to the
\* same string, names around them, links, and an entry that is neither a
\* file nor a directory
FlatCatalogue ==
    {<< <<(<<"U+00E9">>)>>, File(<<>>) >>,
     << <<(<<"e", "U+0301">>)>>, File(<<>>) >>,
     << <<(<<"f">>)>>, File(<<>>) >>,
     << <<(<<"f">>)>>, Dir >>,
     << <<(<<"e">>)>>, Dir >>,
     << <<(<<"l">>)>>, LinkToFile(<<>>) >>,
     << <<(<<"a">>)>>, LinkToDir >>,
     << <<(<<"b">>)>>, Other >>}

\* the contents an ignore file of the top directory can have
TopIgnoreLines ==
    {<< <<"a">> >>,
     << <<"#", " ", "a">>, <<>>, <<" ", "d", "/", " ">> >>,
     << <<"/", "a">>, <<"!", "b">> >>,
     << <<"*", "i", "g", "n", "o", "r", "e">> >>}

\* the entries a tree is built from
TreeCatalogue ==
    {<< <<GitIgnoreName>>, File(lines) >> : lines \in TopIgnoreLines}
    \cup
    {<< <<GitIgnoreName>>, LinkToFile(<< <<"b">> >>) >>,
     << <<OtherIgnoreName>>, File(<< <<"b">> >>) >>,
     << <<(<<"-", "a">>)>>, File(<<>>) >>,
     << <<(<<"a">>)>>, File(<<>>) >>,
     << <<(<<"b">>)>>, File(<<>>) >>,
     << <<(<<"l">>)>>, LinkToDir >>,
     << <<(<<"d">>)>>, Dir >>,
     << <<(<<"d">>), GitIgnoreName>>, File(<< <<"b">> >>) >>,
     << <<(<<"d">>), <<"a">> >>, File(<<>>) >>,
     << <<(<<"d">>), <<"b">> >>, File(<<>>) >>,
     << <<(<<"d">>), <<"d">> >>, Dir >>,
     << <<(<<"d">>), <<"d">>, <<"a">> >>, File(<<>>) >>}

\* the paths a walk is started on: the top, a directory below it, and a
\* path that is a file or does not exist
WalkRoots == {Top, <<(<<"d">>)>>, <<(<<"a">>)>>}

\* the specs a caller hands to treewalk_ignore
InitialSpecs == {None, Some(IgnoreSpec_from_lines(<< <<"-", "a">> >>))}

NoWalk == [op |-> "none"]

\* the caller creates an entry in a directory that exists
CreateEntry(path, node) ==
    /\ Cardinality(DOMAIN fs) < MaxEntries
    /\ path \notin DOMAIN fs
    /\ Parent(path) = Top \/ (Parent(path) \in DOMAIN fs /\ fs[Parent(path)].kind = "dir")
    /\ fs' = (path :> node) @@ fs
    /\ walk' = NoWalk
    /\ UNCHANGED <<procVars, cliVars, chunker>>

\* listdir(dir), the file system enumerating the directory in some order
Listdir(dir, order) ==
    /\ Path_is_dir(fs, dir)
    /\ order \in ReadDirOrders(fs, dir)
    /\ walk' = [op |-> "listdir", dir |-> dir, order |-> order,
                entries |-> listdir(fs, dir, order)]
    /\ UNCHANGED <<procVars, cliVars, fs, chunker>>

\* treewalk(path)
Treewalk(path, flip) ==
    /\ walk' = [op |-> "treewalk", path |-> path, flip |-> flip]
                    @@ treewalk(fs, path, flip)
    /\ UNCHANGED <<procVars, cliVars, fs, chunker>>

\* treewalk_ignore(path, ignore_file_name, root_path, ignore_spec)
TreewalkIgnore(path, ignore_file_name, root_path, ignore_spec, flip) ==
    /\ walk' = [op |-> "treewalk_ignore", path |-> path,
                ignore_file_name |-> ignore_file_name, root_path |-> root_path,
                ignore_spec |-> ignore_spec, flip |-> flip]
                    @@ treewalk_ignore(fs, path, ignore_file_name, root_path,
                                       ignore_spec, flip)
    /\ UNCHANGED <<procVars, cliVars, fs, chunker>>

\* the walks only read the tree: each tree is walked once per choice of
\* arguments, from the state its last entry was created in
NotWalked == walk = NoWalk

\* the bytes of a slice that are zero
RECURSIVE ZerosIn(_)
ZerosIn(data) ==
    IF data = <<>> THEN 0
    ELSE (IF Head(data) = 0 THEN 1 ELSE 0) + ZerosIn(Tail(data))

\* the lengths of the chunks that end while data is pushed, in order
RECURSIVE ChunksEnded(_, _)
ChunksEnded(dh, data) ==
    IF data = <<>> THEN <<>>
    ELSE LET next == DataHasher_step(dh, Head(data))
         IN  (IF next.n > dh.n THEN <<dh.pos + 1>> ELSE <<>>)
                \o ChunksEnded(next, Tail(data))

\* the features of the chunks that end while data is pushed, in order: the
\* low 32 bits of the register at each boundary byte
RECURSIVE FeaturesEnded(_, _)
FeaturesEnded(dh, data) ==
    IF data = <<>> THEN <<>>
    ELSE LET next == DataHasher_step(dh, Head(data))
         IN  (IF next.n > dh.n
              THEN <<Feature(ShlAdd64(dh.h, Gear(Head(data))))>> ELSE <<>>)
                \o FeaturesEnded(next, Tail(data))

\* data_hasher.push(data), on a hasher of its own
Feed(data) ==
    /\ data # <<>>
    /\ chunker.total + Len(data) <= MaxSize + MaxTail
    /\ chunker.zeros + ZerosIn(data) <= MaxZeros
    /\ chunker' = [dh |-> DataHasher_push(chunker.dh, data),
                   op |-> "push", before |-> chunker.dh,
                   total |-> chunker.total + Len(data),
                   zeros |-> chunker.zeros + ZerosIn(data),
                   ended |-> ChunksEnded(chunker.dh, data),
                   lengths |-> chunker.lengths \o ChunksEnded(chunker.dh, data),
                   features |-> chunker.features \o FeaturesEnded(chunker.dh, data),
                   digested |-> chunker.digested]
    /\ UNCHANGED <<procVars, cliVars, walkVars>>

\* data_hasher.digest(), on a hasher of its own: the bytes received since
\* the last boundary are the final chunk
Digest ==
    /\ chunker' = [chunker EXCEPT
                     !.dh = DataHasher_digest(chunker.dh).self,
                     !.op = "digest", !.before = chunker.dh,
                     !.ended = <<>>,
                     !.lengths = @ \o (IF chunker.dh.pos > 0
                                       THEN <<chunker.dh.pos>> ELSE <<>>),
                     !.features = @ \o (IF chunker.dh.pos > 0
                                        THEN <<Feature(chunker.dh.h)>> ELSE <<>>),
                     !.digested = TRUE]
    /\ UNCHANGED <<procVars, cliVars, walkVars>>

\* update after result, which the processor accepts: followed on streams of
\* up to MaxStream bytes
FeedOn(data) ==
    /\ chunker.digested => chunker.total + Len(data) <= MaxStream
    /\ Feed(data)

NextDigest ==
    \/ \E data \in SeqsUpTo(MaxFeed) : FeedOn(data)
    \/ Digest

SpecDigest == Init /\ [][NextDigest]_vars

NextChunk == \E data \in SeqsUpTo(MaxFeed) : Feed(data)

SpecChunk == Init /\ [][NextChunk]_vars

NextListdir ==
    \/ \E e \in FlatCatalogue : CreateEntry(e[1], e[2])
    \/ NotWalked /\ \E order \in ReadDirOrders(fs, Top) : Listdir(Top, order)

SpecListdir == Init /\ [][NextListdir]_vars

NextWalk ==
    \/ \E e \in TreeCatalogue : CreateEntry(e[1], e[2])
    \/ NotWalked /\ \E path \in WalkRoots, flip \in BOOLEAN : Treewalk(path, flip)
    \/ NotWalked /\
         \E path \in WalkRoots, ignore_file_name \in {GitIgnoreName, OtherIgnoreName},
            root_path \in {None, Some(Top), Some(<<(<<"d">>)>>)},
            ignore_spec \in InitialSpecs, flip \in BOOLEAN :
              /\ flip => (root_path = None /\ ignore_spec = None)
              /\ TreewalkIgnore(path, ignore_file_name, root_path, ignore_spec, flip)

SpecWalk == Init /\ [][NextWalk]_vars

(***************************************************************************)
(* Properties.                                                             *)
(***************************************************************************)
\* the part of a token after "ISCC:" and the bytes it decodes to
TokenCode(text) == SubSeq(text, Len(IsccPrefix) + 1, Len(text))
TokenPayload(text) == Base32Decode(TokenCode(text))

Returned == ret.op = "result" /\ ret.outcome = "ok"

\* C1: once result has returned for a processor, every later update and
\* every later result on it is rejected with AlreadyFinalized.
C1_TerminalAfterFinalize ==
    (ret.op \in {"update", "result"} /\ ret.after_result)
        => ret.outcome = "AlreadyFinalized"

\* C2: slicing independence.  The first result of a processor, whatever
\* slices its stream arrived in (empty ones included), is the result of a
\* fresh processor given the whole stream in one update, with the same flags.
C2_SlicingIndependence ==
    (Returned /\ ~ret.after_result)
        => ret.dict = result(update(IsccSumProcessor_new, stream[ret.p]),
                             ret.wide, ret.add_units).dict

\* a first result for a stream that arrived in several non-empty slices and
\* whose first chunk spans them
C2_Witness ==
    /\ Returned /\ ~ret.after_result
    /\ sliced[ret.p]
    /\ Len(stream[ret.p]) = MaxStream
    /\ stream[ret.p][1] = 1
    /\ proc[ret.p].data_hasher.n >= 1

\* C3: the filesize a result reports is the number of bytes pushed so far,
\* whatever the flags.
C3_Filesize == Returned => ret.dict.filesize = Len(stream[ret.p])

C3_Witness ==
    /\ Returned /\ sliced[ret.p]
    /\ Len(stream[ret.p]) >= 3
    /\ ret.dict.filesize = Len(stream[ret.p])

\* a first result agrees with what any other processor holding the same
\* stream, and not yet finalized, returns for the same flags
SameStreamSameResult ==
    (Returned /\ ~ret.after_result) =>
        \A q \in Procs \ {ret.p} :
            (stream[q] = stream[ret.p] /\ ~finalized[q])
                => result(proc[q], ret.wide, ret.add_units).dict = ret.dict

\* C4: determinism.  Two processors that received the same byte stream, in
\* whatever slices, and are finalized with the same flags return results
\* equal field for field; and a call on one processor leaves every other
\* processor as it was.
C4_Determinism ==
    /\ []SameStreamSameResult
    /\ [][\A q \in Procs : q # ret'.p => proc'[q] = proc[q]]_vars

\* a first result on a processor while the other one holds the same stream
\* of two bytes or more, arrived in different slices
C4_Witness ==
    /\ Returned /\ ~ret.after_result
    /\ \E q \in Procs \ {ret.p} :
            /\ stream[q] = stream[ret.p]
            /\ Len(stream[q]) >= 2
            /\ ~finalized[q]
            /\ sliced[q] # sliced[ret.p]

\* C5: token shape.  iscc is "ISCC:" followed by characters of the RFC 4648
\* alphabet only (no padding); they are the unpadded encoding of the payload
\* they decode to, and the payload is 2 + 16 bytes when wide is false and
\* 2 + 32 bytes when wide is true.
C5_TokenShape ==
    Returned =>
        LET text == ret.dict.iscc
            code == TokenCode(text)
        IN  /\ Len(text) >= Len(IsccPrefix)
            /\ SubSeq(text, 1, Len(IsccPrefix)) = <<"I", "S", "C", "C", ":">>
            /\ \A k \in 1..Len(code) : code[k] \in Base32Chars
            /\ Len(Base32Decode(code)) = 2 + (IF ret.wide THEN 32 ELSE 16)
            /\ Base32Encode(Base32Decode(code)) = code

C5_Witness ==
    /\ Returned /\ ~ret.wide
    /\ stream[ret.p] # <<>>
    /\ Len(TokenPayload(ret.dict.iscc)) = 18

\* C6: header of the composite token.  Byte 0 of the payload has high nibble
\* 5 and low nibble 5 (wide false) or 7 (wide true); byte 1 is 0; for every
\* stream and either value of add_units.
C6_HeaderFields ==
    Returned =>
        LET payload == TokenPayload(ret.dict.iscc)
        IN  /\ payload[1] \div 16 = 5
            /\ payload[1] % 16 = (IF ret.wide THEN 7 ELSE 5)
            /\ payload[2] = 0

C6_Witness ==
    /\ Returned /\ ret.wide /\ ret.add_units
    /\ stream[ret.p] # <<>>
    /\ TokenPayload(ret.dict.iscc)[1] = 87

\* C7: prefix property.  For the same input, payload bytes 2..10 of the
\* compact token are payload bytes 2..10 of the wide token, and bytes 10..18
\* of the compact token are bytes 18..26 of the wide token.
C7_PrefixProperty ==
    Returned =>
        LET mine    == TokenPayload(ret.dict.iscc)
            other   == TokenPayload(result(proc[ret.p], ~ret.wide, ret.add_units).dict.iscc)
            compact == IF ret.wide THEN other ELSE mine
            wide    == IF ret.wide THEN mine ELSE other
        IN  /\ SubSeq(compact, 3, 10) = SubSeq(wide, 3, 10)
            /\ SubSeq(compact, 11, 18) = SubSeq(wide, 19, 26)

\* a result over a stream with a folded chunk, whose instance half is not
\* the same byte repeated
C7_Witness ==
    /\ Returned
    /\ proc[ret.p].data_hasher.n >= 1
    /\ LET payload == TokenPayload(ret.dict.iscc)
       IN  \E i, j \in 3..Len(payload) : payload[i] # payload[j]

\* C8: units.  The result holds units exactly when add_units was asked for,
\* and then two tokens, the data unit and the instance unit in this order:
\* "ISCC:" and the encoding of 0x30 0x07 and the 32-byte data digest, then
\* "ISCC:" and the encoding of 0x40 0x07 and the 32-byte instance digest.
C8_Units ==
    Returned =>
        /\ ("units" \in DOMAIN ret.dict) <=> ret.add_units
        /\ ret.add_units =>
            LET units == ret.dict.units
            IN  /\ Len(units) = 2
                /\ \A k \in 1..2 : SubSeq(units[k], 1, 5) = <<"I", "S", "C", "C", ":">>
                /\ \A k \in 1..2 : \A c \in 1..Len(TokenCode(units[k])) :
                        TokenCode(units[k])[c] \in Base32Chars
                /\ TokenPayload(units[1])
                     = <<48, 7>> \o LanesDigest(proc[ret.p].data_hasher.lanes)
                /\ TokenPayload(units[2])
                     = <<64, 7>> \o InstanceHasher_digest(proc[ret.p].instance_hasher)
                /\ Len(TokenPayload(units[1])) = 34
                /\ Len(TokenPayload(units[2])) = 34

C8_Witness ==
    /\ Returned /\ ret.add_units
    /\ proc[ret.p].data_hasher.n >= 1
    /\ Len(ret.dict.units) = 2
    /\ ret.dict.units[1] # ret.dict.units[2]

\* C10: CLI mode selection.  With -n the result is the 64+64-bit compact
\* form (wide false, a token shorter than 40 characters), without it the
\* 128+128-bit wide form (wide true, a token longer than 40 characters);
\* on the same input the two tokens differ and the filesize is the same;
\* units are never part of the result.
C10_CliModeSelection ==
    cli.pc = "done" =>
        LET mine    == cli.result
            other   == process_reader_result(update(IsccSumProcessor_new, cli.data),
                                             ~cli.narrow)
            payload == TokenPayload(mine.iscc)
        IN  /\ cli.narrow =>
                  /\ Len(mine.iscc) < 40
                  /\ Len(payload) = 2 + 8 + 8
                  /\ payload[1] % 16 = 5
            /\ ~cli.narrow =>
                  /\ Len(mine.iscc) > 40
                  /\ Len(payload) = 2 + 16 + 16
                  /\ payload[1] % 16 = 7
            /\ mine.iscc # other.iscc
            /\ mine.filesize = other.filesize
            /\ mine.filesize = Len(cli.data)
            /\ "units" \notin DOMAIN mine

C10_Witness ==
    /\ cli.pc = "done"
    /\ cli.narrow
    /\ Len(cli.data) = MaxStream
    /\ Len(cli.result.iscc) < 40

\* what result reports for a processor: iscc, datahash and filesize, in
\* both modes
Reported(x) ==
    [wide \in BOOLEAN |->
        LET d == result(x, wide, FALSE).dict
        IN  <<d.iscc, d.datahash, d.filesize>>]

\* C9: a call that is rejected leaves the processor as it was, and once
\* result has returned for a processor no later call changes the iscc,
\* datahash or filesize that result reports for it.
C9_NoPartialMutationStableResult ==
    [][/\ ret'.outcome # "ok" => proc' = proc
       /\ \A p \in Procs : finalized[p] => Reported(proc'[p]) = Reported(proc[p])]_vars

\* the run is over
Exited == run.pc = "exited"

\* the token process_reader gives for a reader holding data
TokenOf(data, narrow) ==
    process_reader_result(update(IsccSumProcessor_new, data), narrow).iscc

\* C11: a successful run prints exactly one line per input, in the order
\* the files were given, each the input's ISCC token, a space, an asterisk
\* and the file name; with no files it reads standard input only and
\* prints exactly one line, whose name is a hyphen.  While a run goes on
\* the lines printed are those of the inputs already processed.
C11_CliOutputLines ==
    /\ run.pc \in {"run", "exited"} =>
          /\ Len(run.stdout) = run.idx - 1
          /\ \A i \in 1..Len(run.stdout) :
                LET name == IF run.files = <<>> THEN <<"-">> ELSE run.files[i]
                    data == IF run.files = <<>> THEN run.stdin
                            ELSE run.disk[run.files[i]].data
                    line == run.stdout[i]
                    tlen == Len(line) - Len(name) - 2
                IN  /\ tlen > Len(IsccPrefix)
                    /\ SubSeq(line, 1, tlen) = TokenOf(data, run.narrow)
                    /\ SubSeq(line, 1, Len(IsccPrefix)) = IsccPrefix
                    /\ \A k \in 1..tlen : line[k] # " "
                    /\ line[tlen + 1] = " "
                    /\ line[tlen + 2] = "*"
                    /\ SubSeq(line, tlen + 3, Len(line)) = name
    /\ (Exited /\ run.exit = 0) =>
          IF run.files = <<>>
          THEN Len(run.stdout) = 1 /\ run.opened = <<(<<"-">>)>>
          ELSE Len(run.stdout) = Len(run.files) /\ run.opened = run.files

\* a successful run over two different files has printed two lines
C11_Witness ==
    /\ Exited
    /\ run.exit = 0
    /\ Len(run.files) = 2
    /\ run.files[1] # run.files[2]
    /\ Len(run.stdout) = 2
    /\ run.stdout[1] # run.stdout[2]

\* an input of the command line that is absent or not a regular file
BadInput(i) == run.disk[run.files[i]].kind # "file"

\* C12: the process exits with 0 when every input was processed and with 1
\* when an input does not exist, is not a regular file or fails to open
\* or read; in the error case one message that starts with "isum: " is on
\* standard error and no line is printed for the failing input; a
\* successful run writes nothing to standard error.
C12_CliErrorsExitCodes ==
    Exited =>
        /\ run.exit \in {0, 1}
        /\ run.exit = 0 <=> run.stderr = <<>>
        /\ run.exit = 0 <=> Len(run.stdout) = (IF run.files = <<>> THEN 1 ELSE Len(run.files))
        /\ (\E i \in 1..Len(run.files) : BadInput(i)) => run.exit = 1
        /\ run.exit = 1 =>
              /\ Len(run.stderr) = 1
              /\ Head(run.stderr[1]) = "isum: "
              /\ Len(run.stderr[1]) > 1
              /\ Len(run.stdout) = run.idx - 1
              /\ run.files # <<>> =>
                    /\ run.idx <= Len(run.files)
                    /\ \A i \in 1..(run.idx - 1) : ~BadInput(i)

\* a run that printed the first file's line and failed on the second,
\* which does not exist
C12_Witness ==
    /\ Exited
    /\ run.exit = 1
    /\ Len(run.files) = 2
    /\ run.idx = 2
    /\ run.disk[run.files[2]].kind = "missing"
    /\ Len(run.stdout) = 1
    /\ Len(run.stderr) = 1

\* a is the path p or a directory above it
IsPrefix(a, p) == Len(a) <= Len(p) /\ SubSeq(p, 1, Len(a)) = a

\* the order of two different names in a listing: by the bytes of the
\* normalized name, then by the bytes of the name
NameBefore(a, b) ==
    LET na == as_bytes(nfc(a))
        nb == as_bytes(nfc(b))
    IN  \/ cmp(na, nb) = "Less"
        \/ na = nb /\ cmp(as_bytes(a), as_bytes(b)) = "Less"

\* the longest common directory of two paths of files
RECURSIVE CommonDir(_, _)
CommonDir(p, q) ==
    IF Len(p) <= 1 \/ Len(q) <= 1 \/ Head(p) # Head(q) THEN <<>>
    ELSE <<Head(p)>> \o CommonDir(Tail(p), Tail(q))

\* file p is due before file q in a walk
WalkBefore(p, q) ==
    LET c  == Len(CommonDir(p, q))
        pn == p[c + 1]
        qn == q[c + 1]
    IN  IF Len(p) = c + 1 /\ Len(q) = c + 1
        THEN \/ IsIgnoreName(pn) /\ ~IsIgnoreName(qn)
             \/ IsIgnoreName(pn) = IsIgnoreName(qn) /\ NameBefore(pn, qn)
        ELSE IF Len(p) = c + 1 THEN TRUE
        ELSE IF Len(q) = c + 1 THEN FALSE
        ELSE NameBefore(pn, qn)

\* the regular files below a directory
FilesBelow(root) ==
    {p \in DOMAIN fs : fs[p].kind = "file" /\ Len(p) > Len(root) /\ IsPrefix(root, p)}

Walked(op) == walk.op = op /\ walk.outcome = "ok"

C14_ListdirOrdering ==
    walk.op = "listdir" =>
        LET entries == walk.entries
            n       == Len(entries)
        IN  /\ \A i, j \in 1..n :
                  i < j => NameBefore(entries[i].name, entries[j].name)
            /\ \A i, j, k \in 1..n :
                  (i < k /\ k < j /\ nfc(entries[i].name) = nfc(entries[j].name))
                      => nfc(entries[k].name) = nfc(entries[i].name)
            /\ \A flip \in BOOLEAN :
                  entries = listdir(fs, walk.dir, read_dir(fs, walk.dir, flip))

\* a listing that holds both forms of one normalized name next to each
\* other, after a name whose bytes lie between theirs, from an enumeration
\* in another order
C14_Witness ==
    /\ walk.op = "listdir"
    /\ \E i \in 1..(Len(walk.entries) - 2) :
          /\ walk.entries[i].name = <<"f">>
          /\ walk.entries[i + 1].name = <<"e", "U+0301">>
          /\ walk.entries[i + 2].name = <<"U+00E9">>
    /\ \E k \in 1..Len(walk.entries) : walk.order[k] # walk.entries[k].name

\* C15: no entry listdir returns is a symbolic link, and every entry of
\* the directory that is not one is returned exactly once, is_dir and
\* is_file telling its type.
C15_ListdirNoSymlinks ==
    walk.op = "listdir" =>
        LET entries == walk.entries
        IN  /\ \A i \in 1..Len(entries) :
                  LET e == entries[i]
                  IN  /\ e.path = Append(walk.dir, e.name)
                      /\ e.path \in DOMAIN fs
                      /\ fs[e.path].kind # "link"
                      /\ e.is_dir = (fs[e.path].kind = "dir")
                      /\ e.is_file = (fs[e.path].kind = "file")
            /\ \A name \in NamesIn(fs, walk.dir) :
                  fs[Append(walk.dir, name)].kind # "link" =>
                      Cardinality({i \in 1..Len(entries) : entries[i].name = name}) = 1

\* a listing of a directory that holds a link to a file, a link to a
\* directory, a file and a directory
C15_Witness ==
    /\ walk.op = "listdir"
    /\ \E p, q \in DOMAIN fs :
          /\ fs[p].kind = "link" /\ fs[p].to = "file"
          /\ fs[q].kind = "link" /\ fs[q].to = "dir"
    /\ Len(walk.entries) = Cardinality(DOMAIN fs) - 2
    /\ \E i, j \in 1..Len(walk.entries) : walk.entries[i].is_dir /\ walk.entries[j].is_file

\* the root that relative paths are taken from in the walk that returned
WalkRootPath == IF walk.root_path.some THEN walk.root_path.value ELSE walk.path

\* the patterns in force in a directory: those of the spec handed to the
\* walk and of the ignore files from the walk's path down to the directory
RECURSIVE PatternsAt(_)
PatternsAt(dir) ==
    LET above == IF dir = walk.path
                 THEN (IF walk.ignore_spec.some THEN walk.ignore_spec.value.patterns
                       ELSE <<>>)
                 ELSE PatternsAt(Parent(dir))
        file  == Append(dir, walk.ignore_file_name)
    IN  IF file \in DOMAIN fs /\ Path_is_file(fs, file)
        THEN above \o IgnoreSpec_from_lines(fs[file].lines).patterns
        ELSE above

\* some pattern in force in the directory matches the text
SomePatternMatches(dir, text) ==
    \E k \in 1..Len(PatternsAt(dir)) :
        IgnoreSpec_matches([patterns |-> <<PatternsAt(dir)[k]>>], text)

RelText(path) == PathText(SubSeq(path, Len(WalkRootPath) + 1, Len(path)))

InResult(path) == \E i \in 1..Len(walk.result) : walk.result[i] = path
WasListed(dir) == \E i \in 1..Len(walk.listed) : walk.listed[i] = dir
WasRead(path) == \E i \in 1..Len(walk.read) : walk.read[i] = path

\* C16: treewalk_ignore yields a regular file that is not an ignore file
\* only if its path relative to the root matches no pattern of the spec
\* handed in and none of the ignore file of its own directory or of a
\* directory above it down from the walk's path; a file of a listed
\* directory that matches none of them is yielded, so patterns reach
\* downwards only.
C16_CascadingIgnorePatterns ==
    Walked("treewalk_ignore") =>
        \A p \in FilesBelow(walk.path) :
            ~IsIgnoreName(Last(p)) =>
                /\ InResult(p) => ~SomePatternMatches(Parent(p), RelText(p))
                /\ (WasListed(Parent(p)) /\ ~SomePatternMatches(Parent(p), RelText(p)))
                      => InResult(p)

\* a walk from the top with a spec handed in: a file of a subdirectory is
\* left out by the subdirectory's ignore file, its namesake at the top is
\* yielded, and the file the given spec names is left out
C16_Witness ==
    /\ Walked("treewalk_ignore")
    /\ walk.path = Top
    /\ walk.ignore_file_name = GitIgnoreName
    /\ walk.ignore_spec.some
    /\ <<(<<"d">>), <<"b">> >> \in DOMAIN fs
    /\ <<(<<"-", "a">>)>> \in DOMAIN fs
    /\ WasRead(<<(<<"d">>), GitIgnoreName>>)
    /\ InResult(<<(<<"b">>)>>)
    /\ ~InResult(<<(<<"d">>), <<"b">> >>)
    /\ ~InResult(<<(<<"-", "a">>)>>)

\* the directories below the path of the walk
DirsBelow(root) ==
    {p \in DOMAIN fs : fs[p].kind = "dir" /\ Len(p) > Len(root) /\ IsPrefix(root, p)}

\* the directory's path matches a pattern in force above it, with a
\* trailing separator or as it is
MatchesAsDirectory(dir) ==
    \/ SomePatternMatches(Parent(dir), RelText(dir) \o <<"/">>)
    \/ SomePatternMatches(Parent(dir), RelText(dir))

\* C17: a directory whose relative path matches the patterns in force as a
\* directory is not descended into: it is not listed, no path below it is
\* yielded at any depth, and no ignore file below it is read.
C17_IgnoredDirectoriesPruned ==
    Walked("treewalk_ignore") =>
        \A dir \in DirsBelow(walk.path) :
            MatchesAsDirectory(dir) =>
                /\ \A i \in 1..Len(walk.listed) : ~IsPrefix(dir, walk.listed[i])
                /\ \A i \in 1..Len(walk.result) : ~IsPrefix(dir, walk.result[i])
                /\ \A i \in 1..Len(walk.read) : ~IsPrefix(dir, walk.read[i])

\* a walk from the top whose ignore file names a directory that holds an
\* ignore file and a directory with a file: the top is listed, nothing
\* below the directory is
C17_Witness ==
    /\ Walked("treewalk_ignore")
    /\ walk.path = Top
    /\ walk.ignore_file_name = GitIgnoreName
    /\ MatchesAsDirectory(<<(<<"d">>)>>)
    /\ <<(<<"d">>), GitIgnoreName>> \in DOMAIN fs
    /\ <<(<<"d">>), <<"d">>, <<"a">> >> \in DOMAIN fs
    /\ walk.listed = <<Top>>
    /\ walk.read = <<(<<GitIgnoreName>>)>>

\* the tree with the lines of every ignore file of another name taken out
BlankOtherIgnoreFiles ==
    [p \in DOMAIN fs |->
        IF /\ IsIgnoreName(Last(p))
           /\ Last(p) # walk.ignore_file_name
           /\ fs[p].kind \in {"file", "link"}
           /\ "lines" \in DOMAIN fs[p]
        THEN [fs[p] EXCEPT !.lines = <<>>]
        ELSE fs[p]]

C19_RootValidation ==
    walk.op \in {"treewalk", "treewalk_ignore"} =>
        /\ ~Path_exists(fs, walk.path) <=> walk.outcome = "NotFound"
        /\ (Path_exists(fs, walk.path) /\ ~Path_is_dir(fs, walk.path))
              <=> walk.outcome = "InvalidInput"
        /\ walk.outcome \in {"NotFound", "InvalidInput"} =>
              /\ walk.listed = <<>>
              /\ walk.read = <<>>
              /\ walk.result = <<>>
        /\ walk.listed # <<>> => Path_is_dir(fs, walk.path)

\* treewalk_ignore on a path that is a regular file, in a tree that holds
\* other files and an ignore file
C19_Witness ==
    /\ walk.op = "treewalk_ignore"
    /\ walk.outcome = "InvalidInput"
    /\ walk.path \in DOMAIN fs
    /\ fs[walk.path].kind = "file"
    /\ <<GitIgnoreName>> \in DOMAIN fs
    /\ Cardinality(DOMAIN fs) >= 3

\* C20: every chunk the chunker ends while bytes are pushed, whatever the
\* slicing, is at least min_size and at most max_size long, and the length
\* pos of the open chunk never exceeds max_size: no boundary is taken
\* while pos < min_size, and one is forced when pos reaches max_size.
C20_ChunkLengthBounds ==
    /\ \A k \in 1..Len(chunker.ended) :
          MinSize <= chunker.ended[k] /\ chunker.ended[k] <= MaxSize
    /\ chunker.dh.pos <= MaxSize
    /\ \A p \in Procs : proc[p].data_hasher.pos <= MaxSize

\* a push whose first byte ends a chunk of the maximum size and whose
\* second byte, a zero, clears the low bits of the register while the new
\* chunk is shorter than the minimum: no boundary is taken there
C20_Witness ==
    /\ MinSize > 1
    /\ chunker.ended = <<MaxSize>>
    /\ chunker.dh.pos = 1
    /\ LowBits(chunker.dh.h[1], BitsSmall) = 0
    /\ chunker.total = MaxSize + 1

RECURSIVE SumOf(_)
SumOf(q) == IF q = <<>> THEN 0 ELSE Head(q) + SumOf(Tail(q))

Min32(x, y) == IF Less32(y, x) THEN y ELSE x

Lanes == 0..(NumLanes - 1)

\* C21: at every moment the bytes pushed are the bytes of the chunks ended
\* so far plus the pos bytes of the one open chunk, and the hasher has
\* counted one chunk per ended chunk.  After digest no chunk is open; when
\* bytes were pending (pos > 0) they formed one final chunk, however short,
\* that added exactly one feature, the low 32 bits of the register as it
\* stood, to the lanes; when none were pending (pos = 0) digest added no
\* feature and left the lanes as they were.
C21_FinalChunk ==
    /\ chunker.total = SumOf(chunker.lengths) + chunker.dh.pos
    /\ Len(chunker.lengths) = chunker.dh.n
    /\ chunker.op = "digest" =>
          /\ chunker.dh.pos = 0
          /\ IF chunker.before.pos > 0
             THEN /\ chunker.dh.n = chunker.before.n + 1
                  /\ Last(chunker.lengths) = chunker.before.pos
                  /\ \A i \in Lanes :
                        chunker.dh.lanes[i] =
                            Min32(chunker.before.lanes[i],
                                  Permute(i, Feature(chunker.before.h)))
             ELSE /\ chunker.dh.n = chunker.before.n
                  /\ chunker.dh.lanes = chunker.before.lanes

\* digest on a hasher that has ended a chunk and holds an open chunk
\* shorter than the minimum size: the short chunk is counted and lowers a
\* lane
C21_Witness ==
    /\ chunker.op = "digest"
    /\ chunker.before.n >= 1
    /\ chunker.before.pos > 0
    /\ chunker.before.pos < MinSize
    /\ chunker.dh.n = chunker.before.n + 1
    /\ \E i \in Lanes : chunker.dh.lanes[i] # chunker.before.lanes[i]

\* the least of the sentinel and the permuted features of lane i
LaneMinimum(i, features) ==
    LET S == {Sentinel32} \cup {Permute(i, features[k]) : k \in 1..Len(features)}
    IN  CHOOSE m \in S : \A x \in S : ~Less32(x, m)

\* C22: each of the 64 lanes holds the least of 0xFFFFFFFF and p_i(f) over
\* the features f of all chunks folded so far, p_i in arithmetic modulo
\* 2^32; no lane is greater after a call than before it; with no chunk
\* folded every lane holds 0xFFFFFFFF.
C22_MinHashLanes ==
    /\ \A i \in Lanes : chunker.dh.lanes[i] = LaneMinimum(i, chunker.features)
    /\ \A i \in Lanes : ~Less32(chunker.before.lanes[i], chunker.dh.lanes[i])
    /\ chunker.dh.n = 0 => \A i \in Lanes : chunker.dh.lanes[i] = Sentinel32

\* a push that ends a chunk after an earlier one: its feature lowers one
\* lane and leaves another at the smaller value it had, and one of its
\* permuted values wrapped around 2^32
C22_Witness ==
    /\ chunker.op = "push"
    /\ chunker.dh.n > chunker.before.n
    /\ chunker.before.n >= 1
    /\ \E i \in Lanes : Less32(chunker.dh.lanes[i], chunker.before.lanes[i])
    /\ \E j \in Lanes : Less32(chunker.dh.lanes[j], Permute(j, Last(chunker.features)))
    /\ \E k \in Lanes :
          LET f == Last(chunker.features)
          IN  Less32(Permute(k, f), f) /\ LaneATable[k][2] > 0

\* the place of a yielded path in the result of the walk
IndexInResult(path) == CHOOSE i \in 1..Len(walk.result) : walk.result[i] = path

\* C23: treewalk_ignore yields every ignore file (a regular file whose name
\* starts with '.' and ends with "ignore") of every directory it visits,
\* ahead of the regular files of that directory it yields, even when the
\* path of the ignore file relative to the root matches a pattern in force.
C23_IgnoreFilesNotFiltered ==
    Walked("treewalk_ignore") =>
        \A p \in FilesBelow(walk.path) :
            (IsIgnoreName(Last(p)) /\ WasListed(Parent(p))) =>
                /\ InResult(p)
                /\ \A q \in FilesBelow(walk.path) :
                      (Parent(q) = Parent(p) /\ ~IsIgnoreName(Last(q)) /\ InResult(q))
                          => IndexInResult(p) < IndexInResult(q)

=============================================================================
